---- MODULE Spec2Model ----
(***************************************************************************)
(* Telemetry ingestion and query engine of the Drone-Panel repository:     *)
(* the /api/flightdata route (POST, GET), the UnityDataWriter class over   *)
(* the D1 table unity_data, and the dashboard's polling of the route.      *)
(***************************************************************************)
EXTENDS Integers, Sequences, FiniteSets, TLC

\* ------------------------------------------------------------------ bounds
\* greatest number of rows the table holds where POST is explored with every body
MaxIngest == 2
\* greatest number of rows the table holds where the queries are explored
MaxStore == 3
\* greatest number of samples in one writeBatchData call
MaxBatch == 2
\* greatest number of fetchLatestData calls the dashboard makes
MaxFetch == 3

\* -------------------------------------------------------- program constants
\* the read endpoint's default limit: searchParams.get("limit") || "10"
DefaultLimit == 10
\* the limit the dashboard asks for: fetch("/api/flightdata?limit=100")
FetchLimit == 100

\* ------------------------------------------------------------- JSON values
\* A JavaScript value as it arrives in a request body.  A number is n, or
\* n + 1/2 when half is set (a number that is not an integer).
Undefined == [k |-> "undefined", s |-> "", n |-> 0, half |-> FALSE]
JNull == [k |-> "null", s |-> "", n |-> 0, half |-> FALSE]
Str(x) == [k |-> "string", s |-> x, n |-> 0, half |-> FALSE]
Num(x, h) == [k |-> "number", s |-> "", n |-> x, half |-> h]

\* JavaScript truthiness, the negation of the `!x` of the validation
Truthy(v) ==
  CASE v.k = "undefined" -> FALSE
    [] v.k = "null" -> FALSE
    [] v.k = "string" -> v.s # ""
    [] v.k = "number" -> ~(v.n = 0 /\ ~v.half)

\* Twice the numeric value of a number: the order SQLite compares by
Twice(v) == 2 * v.n + (IF v.half THEN 1 ELSE 0)

\* The UnityData of a request.  speed stands for the thirteen further
\* columns, all bound the same way and all NOT NULL.
DeviceIdValues == {Undefined, Str(""), Str("A"), Str("B")}
TimestampValues ==
  {Undefined, Num(-1, FALSE), Num(0, FALSE), Num(1, FALSE), Num(1, TRUE)}
SpeedValues == {JNull, Num(5, FALSE)}
UnityData ==
  [deviceId : DeviceIdValues, timestamp : TimestampValues, speed : SpeedValues]

\* ---------------------------------------------------------------- the table
\* A row of unity_data.  batch and bsize are history fields, not columns:
\* the id of the first row of the db.batch call that inserted the row and
\* the number of statements of that call (0 and 0 for a single insert).
Row(id, data, batch, bsize) ==
  [id |-> id, device_id |-> data.deviceId.s, timestamp |-> data.timestamp,
   speed |-> data.speed, batch |-> batch, bsize |-> bsize]

\* The sample fields of a row equal those of a UnityData
SameFields(row, data) ==
  /\ data.deviceId.k = "string" /\ row.device_id = data.deviceId.s
  /\ row.timestamp = data.timestamp
  /\ row.speed = data.speed

\* D1's bind throws a type error on an undefined argument
BindThrows(data) ==
  \/ data.deviceId.k = "undefined"
  \/ data.timestamp.k = "undefined"
  \/ data.speed.k = "undefined"

\* A NOT NULL column refuses a null
ConstraintFails(data) ==
  \/ data.deviceId.k = "null"
  \/ data.timestamp.k = "null"
  \/ data.speed.k = "null"

VARIABLES
  store,   \* the committed rows of unity_data, in insertion order
  nextId,  \* the next AUTOINCREMENT id
  txn,     \* the db.batch transaction in progress, if any
  resp,    \* the outcome of the last completed call
  latestDeviceData,  \* the dashboard's list, one row for each device
  isPolling,         \* the dashboard's polling switch
  fetches            \* the fetchLatestData calls made, by order of issue

\* The dashboard's part of the state
dashVars == <<latestDeviceData, isPolling, fetches>>

vars == <<store, nextId, txn, resp, latestDeviceData, isPolling, fetches>>

\* No db.batch call in progress.  Of a call in progress: mode is how the
\* statements were issued, rest the statements still to run, pending the rows
\* the transaction has inserted and not committed, done the number of
\* statements run, first the id the first row gets, size the number of
\* statements, snap the table when the call began.
NoTxn ==
  [active |-> FALSE, mode |-> "none", array |-> <<>>, rest |-> <<>>, pending |-> <<>>,
   done |-> 0, first |-> 0, size |-> 0, snap |-> <<>>]

NoParams == [deviceId |-> JNull, limit |-> JNull, startTime |-> JNull, endTime |-> JNull]
NoData == [deviceId |-> Undefined, timestamp |-> Undefined, speed |-> JNull]

\* resp: op is the call, status the HTTP status, wrote whether a Store write
\* was issued, query the Store query that ran, data and count the body's,
\* snap the committed table the call read or started from, during the
\* number of statements a db.batch in progress had run when the call ran.
Response(op, status, wrote, data, params, query, rows, snap, during) ==
  [op |-> op, status |-> status, wrote |-> wrote, sample |-> data,
   params |-> params, query |-> query, data |-> rows, count |-> Len(rows),
   snap |-> snap, during |-> during, array |-> <<>>, threw |-> FALSE]

\* The outcome of a writeBatchData call: it threw or it returned; done is
\* the number of statements that had run.
BatchResponse(array, threw, snap, done) ==
  [op |-> "writeBatchData", status |-> 0, wrote |-> TRUE, sample |-> NoData,
   params |-> NoParams, query |-> "none", data |-> <<>>, count |-> 0,
   snap |-> snap, during |-> done, array |-> array, threw |-> threw]

Init ==
  /\ store = <<>>
  /\ nextId = 1
  /\ txn = NoTxn
  /\ resp = Response("none", 0, FALSE, NoData, NoParams, "none", <<>>, <<>>, 0)
  /\ latestDeviceData = <<>>
  /\ isPolling = FALSE
  /\ fetches = <<>>

\* ------------------------------------------------------ UnityDataWriter
Thrown(st, nid) == [ok |-> FALSE, store |-> st, nextId |-> nid]

\* writeData as INSERT OR REPLACE on the device: the device's rows give way
writeDataReplace(data, dbFail, st, nid) ==
  IF BindThrows(data) THEN Thrown(st, nid)
  ELSE IF dbFail \/ ConstraintFails(data) THEN Thrown(st, nid)
  ELSE [ok |-> TRUE,
        store |-> Append(SelectSeq(st, LAMBDA r : r.device_id # data.deviceId.s),
                         Row(nid, data, 0, 0)),
        nextId |-> nid + 1]

\* writeData: one INSERT, bound and run.  dbFail is the database failing the
\* statement (connectivity loss, abort).
writeData(data, dbFail, st, nid) ==
  IF BindThrows(data) THEN Thrown(st, nid)
  ELSE IF dbFail \/ ConstraintFails(data) THEN Thrown(st, nid)
  ELSE [ok |-> TRUE, store |-> Append(st, Row(nid, data, 0, 0)), nextId |-> nid + 1]

Range(f) == {f[i] : i \in DOMAIN f}

\* The rows that may come first under ORDER BY timestamp
FirstRows(rows, desc) ==
  {r \in rows : \A q \in rows :
     IF desc THEN Twice(r.timestamp) >= Twice(q.timestamp)
     ELSE Twice(r.timestamp) <= Twice(q.timestamp)}

\* ORDER BY timestamp: every arrangement of the rows that is ordered by
\* timestamp.  SQL leaves the order of rows with equal timestamps open.
RECURSIVE OrderByTimestamp(_, _)
OrderByTimestamp(rows, desc) ==
  IF rows = {} THEN {<<>>}
  ELSE UNION {{<<r>> \o s : s \in OrderByTimestamp(rows \ {r}, desc)} :
                r \in FirstRows(rows, desc)}

\* LIMIT ?: SQLite puts no upper bound on the rows when the limit is negative
Limit(s, limit) ==
  IF limit < 0 \/ limit >= Len(s) THEN s ELSE SubSeq(s, 1, limit)

\* getLatestData with the order reversed: ORDER BY timestamp ASC
getLatestDataAscending(st, deviceId, limit) ==
  {Limit(s, limit) :
     s \in OrderByTimestamp({r \in Range(st) : r.device_id = deviceId}, FALSE)}

\* getLatestData: WHERE device_id = ? ORDER BY timestamp DESC LIMIT ?
getLatestData(st, deviceId, limit) ==
  {Limit(s, limit) :
     s \in OrderByTimestamp({r \in Range(st) : r.device_id = deviceId}, TRUE)}

\* getAllLatestData: ORDER BY timestamp DESC LIMIT ?
getAllLatestData(st, limit) ==
  {Limit(s, limit) : s \in OrderByTimestamp(Range(st), TRUE)}

\* getDataByTimeRange with the upper bound exclusive: timestamp < ?
getDataByTimeRangeExclusive(st, deviceId, startTime, endTime) ==
  OrderByTimestamp(
    {r \in Range(st) : /\ r.device_id = deviceId
                       /\ Twice(r.timestamp) >= 2 * startTime
                       /\ Twice(r.timestamp) < 2 * endTime}, FALSE)

\* getDataByTimeRange:
\* WHERE device_id = ? AND timestamp >= ? AND timestamp <= ? ORDER BY timestamp ASC
getDataByTimeRange(st, deviceId, startTime, endTime) ==
  OrderByTimestamp(
    {r \in Range(st) : /\ r.device_id = deviceId
                       /\ Twice(r.timestamp) >= 2 * startTime
                       /\ Twice(r.timestamp) <= 2 * endTime}, FALSE)

\* ------------------------------------------------------------------- POST
\* POST writing before it validates
PostOutcomeWriteFirst(data, envDB, dbFail, st, nid) ==
  IF ~envDB
  THEN [status |-> 500, wrote |-> FALSE, store |-> st, nextId |-> nid]
  ELSE LET w == writeData(data, dbFail, st, nid) IN
       IF ~w.ok
       THEN [status |-> 500, wrote |-> TRUE, store |-> w.store, nextId |-> w.nextId]
       ELSE IF ~Truthy(data.deviceId) \/ ~Truthy(data.timestamp)
       THEN [status |-> 400, wrote |-> TRUE, store |-> w.store, nextId |-> w.nextId]
       ELSE [status |-> 200, wrote |-> TRUE, store |-> w.store, nextId |-> w.nextId]

\* POST logging a failed write and answering success all the same
PostOutcomeSwallow(data, envDB, dbFail, st, nid) ==
  IF ~envDB
  THEN [status |-> 500, wrote |-> FALSE, store |-> st, nextId |-> nid]
  ELSE IF ~Truthy(data.deviceId) \/ ~Truthy(data.timestamp)
  THEN [status |-> 400, wrote |-> FALSE, store |-> st, nextId |-> nid]
  ELSE LET w == writeData(data, dbFail, st, nid) IN
       [status |-> 200, wrote |-> TRUE, store |-> w.store, nextId |-> w.nextId]

\* The outcome of POST for a body, with the D1 binding there or not (envDB)
\* and the database failing the statement or not (dbFail).
PostOutcome(data, envDB, dbFail, st, nid) ==
  IF ~envDB
  THEN [status |-> 500, wrote |-> FALSE, store |-> st, nextId |-> nid]
  ELSE IF ~Truthy(data.deviceId) \/ ~Truthy(data.timestamp)
  THEN [status |-> 400, wrote |-> FALSE, store |-> st, nextId |-> nid]
  ELSE LET w == writeData(data, dbFail, st, nid) IN
       [status |-> IF w.ok THEN 200 ELSE 500, wrote |-> TRUE,
        store |-> w.store, nextId |-> w.nextId]

POST(data, envDB, dbFail, cap) ==
  LET out == PostOutcome(data, envDB, dbFail, store, nextId) IN
  /\ out.wrote => ~txn.active
  /\ Len(out.store) <= cap
  /\ store' = out.store
  /\ nextId' = out.nextId
  /\ resp' = Response("POST", out.status, out.wrote, data, NoParams, "none", <<>>, store, 0)
  /\ UNCHANGED txn

\* -------------------------------------------------------------------- GET
\* a || b of JavaScript
OrElse(a, b) == IF Truthy(a) THEN a ELSE b

\* parseInt of a decimal numeral
ParseInt(s) == CHOOSE x \in ((-1)..DefaultLimit) \cup {FetchLimit} : ToString(x) = s

\* The query parameters a request carries: searchParams.get gives null for
\* a parameter that is not there and "" for one with no value.
\* Every way the three deciding parameters are absent, empty or given
DispatchParams ==
  [deviceId : {JNull, Str(""), Str("A")}, limit : {JNull},
   startTime : {JNull, Str(""), Str("1")}, endTime : {JNull, Str(""), Str("2")}]
\* The latest queries under each limit; no row has device_id "C"
LatestParams ==
  [deviceId : {JNull, Str("A"), Str("C")}, limit : {JNull, Str("-1"), Str("0"), Str("1")},
   startTime : {JNull}, endTime : {JNull}]
\* The range queries under each order of the bounds
RangeParams ==
  [deviceId : {Str("A"), Str("C")}, limit : {JNull, Str("1")},
   startTime : {Str("1"), Str("2")}, endTime : {Str("1"), Str("2")}]
Params == DispatchParams \cup LatestParams \cup RangeParams

\* The dispatch with the deviceId branch tested first
ResolveDeviceFirst(p) ==
  IF Truthy(p.deviceId) THEN "getLatestData"
  ELSE IF Truthy(p.deviceId) /\ Truthy(p.startTime) /\ Truthy(p.endTime)
  THEN "getDataByTimeRange"
  ELSE "getAllLatestData"

\* Which Store query the parameters resolve to
Resolve(p) ==
  IF Truthy(p.deviceId) /\ Truthy(p.startTime) /\ Truthy(p.endTime)
  THEN "getDataByTimeRange"
  ELSE IF Truthy(p.deviceId) THEN "getLatestData"
  ELSE "getAllLatestData"

LimitOf(p) == ParseInt(OrElse(p.limit, Str(ToString(DefaultLimit))).s)

\* The results the resolved query can return
QueryResults(p, st) ==
  CASE Resolve(p) = "getDataByTimeRange" ->
         getDataByTimeRange(st, p.deviceId.s, ParseInt(p.startTime.s), ParseInt(p.endTime.s))
    [] Resolve(p) = "getLatestData" -> getLatestData(st, p.deviceId.s, LimitOf(p))
    [] Resolve(p) = "getAllLatestData" -> getAllLatestData(st, LimitOf(p))

\* A query reads the committed table.
GET(p, envDB) ==
  /\ IF ~envDB
     THEN resp' = Response("GET", 500, FALSE, NoData, p, "none", <<>>, store, txn.done)
     ELSE \E rows \in QueryResults(p, store) :
            resp' = Response("GET", 200, FALSE, NoData, p, Resolve(p), rows, store, txn.done)
  /\ UNCHANGED <<store, nextId, txn>>

\* ---------------------------------------------------------- writeBatchData
\* writeBatchData running each statement alone
BatchIssueRun == "run"

\* How writeBatchData issues its statements: db.batch(statements), which D1
\* runs as one transaction ("batch"); "run" is each statement run alone, as
\* writeData does.
BatchIssue == "batch"

\* writeBatchData binds every statement, then calls db.batch.
writeBatchData(dataArray, cap) ==
  /\ ~txn.active
  /\ Len(store) + Len(dataArray) <= cap
  /\ IF \E i \in DOMAIN dataArray : BindThrows(dataArray[i])
     THEN /\ resp' = BatchResponse(dataArray, TRUE, store, 0)
          /\ UNCHANGED txn
     ELSE /\ txn' = [active |-> TRUE, mode |-> BatchIssue, array |-> dataArray,
                     rest |-> dataArray, pending |-> <<>>, done |-> 0,
                     first |-> nextId, size |-> Len(dataArray), snap |-> store]
          /\ UNCHANGED resp
  /\ UNCHANGED <<store, nextId>>

\* D1 runs the next statement of the call.  A statement that fails ends the
\* call with an error: a transaction is rolled back, statements run alone
\* have each already committed.
BatchStatement(dbFail) ==
  /\ txn.active /\ txn.rest # <<>>
  /\ LET data == Head(txn.rest)
         row == Row(txn.first + txn.done, data, txn.first, txn.size)
     IN IF dbFail \/ ConstraintFails(data)
        THEN /\ txn' = NoTxn
             /\ resp' = BatchResponse(txn.array, TRUE, txn.snap, txn.done)
             /\ UNCHANGED <<store, nextId>>
        ELSE /\ txn' = [txn EXCEPT !.rest = Tail(@), !.done = @ + 1,
                          !.pending = IF txn.mode = "batch" THEN Append(@, row) ELSE @]
             /\ store' = IF txn.mode = "batch" THEN store ELSE Append(store, row)
             /\ nextId' = IF txn.mode = "batch" THEN nextId ELSE nextId + 1
             /\ UNCHANGED resp

\* Every statement ran: the transaction commits and the call returns.
BatchCommit ==
  /\ txn.active /\ txn.rest = <<>>
  /\ store' = store \o txn.pending
  /\ nextId' = nextId + Len(txn.pending)
  /\ txn' = NoTxn
  /\ resp' = BatchResponse(txn.array, FALSE, txn.snap, txn.done)

\* -------------------------------------------------------------- dashboard
\* MapSet keeping the older item: item.timestamp < existing.timestamp
MapSetOlder(m, item) ==
  IF \E i \in DOMAIN m : m[i].device_id = item.device_id
  THEN [i \in DOMAIN m |->
          IF m[i].device_id = item.device_id
             /\ Twice(item.timestamp) < Twice(m[i].timestamp)
          THEN item ELSE m[i]]
  ELSE Append(m, item)

\* deviceMap.set(item.device_id, item) when the map has no entry for the
\* device or the item is newer than the entry.  The Map is the sequence of
\* its values in the order the keys were first set; setting a key that is
\* there keeps its place.
MapSet(m, item) ==
  IF \E i \in DOMAIN m : m[i].device_id = item.device_id
  THEN [i \in DOMAIN m |->
          IF m[i].device_id = item.device_id
             /\ Twice(item.timestamp) > Twice(m[i].timestamp)
          THEN item ELSE m[i]]
  ELSE Append(m, item)

\* result.data.forEach(...) from an empty Map
RECURSIVE deviceMap(_)
deviceMap(data) ==
  IF data = <<>> THEN <<>>
  ELSE MapSet(deviceMap(SubSeq(data, 1, Len(data) - 1)), data[Len(data)])

\* Place x in a sequence sorted by (a, b) => b.timestamp - a.timestamp,
\* behind every element that does not sort after it (the sort is stable)
SortInsert(s, x) ==
  LET before == {i \in DOMAIN s : Twice(s[i].timestamp) >= Twice(x.timestamp)}
      k == Cardinality(before)
  IN SubSeq(s, 1, k) \o <<x>> \o SubSeq(s, k + 1, Len(s))

\* Array.prototype.sort with (a, b) => b.timestamp - a.timestamp
RECURSIVE SortByTimestampDesc(_)
SortByTimestampDesc(s) ==
  IF s = <<>> THEN <<>>
  ELSE SortInsert(SortByTimestampDesc(SubSeq(s, 1, Len(s) - 1)), s[Len(s)])

\* latestData: Array.from(deviceMap.values()).sort(...)
latestData(data) == SortByTimestampDesc(deviceMap(data))

\* The request of fetchLatestData: /api/flightdata?limit=100
FetchParams ==
  [deviceId |-> JNull, limit |-> Str(ToString(FetchLimit)), startTime |-> JNull,
   endTime |-> JNull]

\* A fetchLatestData call waiting at await fetch(...)
Sent == [phase |-> "sent", ok |-> FALSE, data |-> <<>>]

\* fetchLatestData up to await fetch(...): the request leaves
fetchLatestData ==
  /\ Len(fetches) < MaxFetch
  /\ fetches' = Append(fetches, Sent)
  /\ UNCHANGED <<latestDeviceData, store, nextId, txn, resp>>

\* The effect at mount: the first fetchLatestData
useEffect ==
  /\ fetches = <<>>
  /\ fetchLatestData
  /\ UNCHANGED isPolling

\* setIsPolling(!isPolling); the effect depends on isPolling and runs
\* again: the interval is set again and fetchLatestData is called
togglePolling ==
  /\ fetches # <<>>
  /\ isPolling' = ~isPolling
  /\ fetchLatestData

\* The interval's callback: if (isPolling) fetchLatestData(false)
Interval ==
  /\ fetches # <<>>
  /\ isPolling
  /\ fetchLatestData
  /\ UNCHANGED isPolling

handleManualRefresh ==
  /\ fetches # <<>>
  /\ fetchLatestData
  /\ UNCHANGED isPolling

\* The route answers the n-th call's request; requests are answered in any
\* order.  response.ok is status 200, result.data the rows.
FetchServe(n, envDB) ==
  /\ fetches[n].phase = "sent"
  /\ GET(FetchParams, envDB)
  /\ fetches' = [fetches EXCEPT ![n] =
                   [phase |-> "answered", ok |-> resp'.status = 200, data |-> resp'.data]]
  /\ UNCHANGED <<latestDeviceData, isPolling>>

\* The n-th call goes on after its awaits: a response that is not ok
\* throws and leaves the list; result.data, an array, is truthy, and
\* setLatestDeviceData(latestData) replaces the list.
FetchApply(n) ==
  /\ fetches[n].phase = "answered"
  /\ fetches' = [fetches EXCEPT ![n].phase = "done"]
  /\ IF fetches[n].ok
     THEN latestDeviceData' = latestData(fetches[n].data)
     ELSE UNCHANGED latestDeviceData
  /\ UNCHANGED <<isPolling, store, nextId, txn, resp>>

\* ---------------------------------------------------------- specifications
\* Ingestion: POST with every body, read back by device.
ReadBackParams ==
  [deviceId : {Str("A"), Str("B")}, limit : {Str("1")}, startTime : {JNull}, endTime : {JNull}]

Next ==
  \/ /\ \E data \in UnityData, envDB \in BOOLEAN, dbFail \in BOOLEAN :
      (envDB \/ ~dbFail) /\ POST(data, envDB, dbFail, MaxIngest)
     /\ UNCHANGED dashVars
  \/ /\ \E p \in ReadBackParams : GET(p, TRUE)
     /\ UNCHANGED dashVars

Spec == Init /\ [][Next]_vars

\* Queries: POST with well-formed bodies, GET with every parameter combination.
QueryData ==
  {[deviceId |-> Str("A"), timestamp |-> Num(1, FALSE), speed |-> Num(5, FALSE)],
   [deviceId |-> Str("A"), timestamp |-> Num(2, FALSE), speed |-> Num(5, FALSE)],
   [deviceId |-> Str("B"), timestamp |-> Num(2, FALSE), speed |-> Num(5, FALSE)]}

NextQuery ==
  \/ /\ \E data \in QueryData : POST(data, TRUE, FALSE, MaxStore)
     /\ UNCHANGED dashVars
  \/ /\ \E p \in Params : GET(p, TRUE)
     /\ UNCHANGED dashVars
  \/ /\ \E p \in ReadBackParams : GET(p, FALSE)
     /\ UNCHANGED dashVars

SpecQuery == Init /\ [][NextQuery]_vars

\* Batches: writeBatchData with concurrent queries and failing statements.
BatchData ==
  {[deviceId |-> Str("A"), timestamp |-> Num(1, FALSE), speed |-> Num(5, FALSE)],
   [deviceId |-> Str("B"), timestamp |-> Num(2, FALSE), speed |-> Num(5, FALSE)],
   [deviceId |-> Str(""), timestamp |-> Num(1, FALSE), speed |-> Num(5, FALSE)],
   [deviceId |-> Str("A"), timestamp |-> Num(1, TRUE), speed |-> JNull],
   [deviceId |-> Str("A"), timestamp |-> Undefined, speed |-> Num(5, FALSE)]}

Batches == UNION {[1..len -> BatchData] : len \in 1..MaxBatch}

BatchQueryParams ==
  {[deviceId |-> JNull, limit |-> JNull, startTime |-> JNull, endTime |-> JNull],
   [deviceId |-> Str("A"), limit |-> JNull, startTime |-> JNull, endTime |-> JNull],
   [deviceId |-> Str("A"), limit |-> JNull, startTime |-> Str("1"), endTime |-> Str("2")]}

NextBatch ==
  \/ /\ \E dataArray \in Batches : writeBatchData(dataArray, MaxStore)
     /\ UNCHANGED dashVars
  \/ /\ \E dbFail \in BOOLEAN : BatchStatement(dbFail)
     /\ UNCHANGED dashVars
  \/ /\ BatchCommit
     /\ UNCHANGED dashVars
  \/ /\ \E p \in BatchQueryParams : GET(p, TRUE)
     /\ UNCHANGED dashVars

SpecBatch == Init /\ [][NextBatch]_vars

\* Everything: single writes, batch writes and queries in any order.
AllData ==
  {[deviceId |-> Str("A"), timestamp |-> Num(2, FALSE), speed |-> Num(5, FALSE)],
   [deviceId |-> Str("B"), timestamp |-> Num(1, FALSE), speed |-> Num(5, FALSE)],
   [deviceId |-> Str(""), timestamp |-> Num(1, FALSE), speed |-> Num(5, FALSE)]}

AllBatchData ==
  {[deviceId |-> Str("A"), timestamp |-> Num(1, FALSE), speed |-> Num(5, FALSE)],
   [deviceId |-> Str("B"), timestamp |-> Num(2, FALSE), speed |-> Num(5, FALSE)],
   [deviceId |-> Str("A"), timestamp |-> Num(1, TRUE), speed |-> JNull]}

AllBatches == UNION {[1..len -> AllBatchData] : len \in 1..MaxBatch}

NextAll ==
  \/ /\ \E data \in AllData, dbFail \in BOOLEAN : POST(data, TRUE, dbFail, MaxStore)
     /\ UNCHANGED dashVars
  \/ /\ \E dataArray \in AllBatches : writeBatchData(dataArray, MaxStore)
     /\ UNCHANGED dashVars
  \/ /\ \E dbFail \in BOOLEAN : BatchStatement(dbFail)
     /\ UNCHANGED dashVars
  \/ /\ BatchCommit
     /\ UNCHANGED dashVars
  \/ /\ \E p \in BatchQueryParams : GET(p, TRUE)
     /\ UNCHANGED dashVars

SpecAll == Init /\ [][NextAll]_vars

\* The dashboard: its calls of fetchLatestData in flight while one device
\* reports, each sample later than the one before.
DashData(t) == [deviceId |-> Str("A"), timestamp |-> Num(t, FALSE), speed |-> Num(5, FALSE)]

NextDash ==
  \/ useEffect
  \/ togglePolling
  \/ Interval
  \/ handleManualRefresh
  \/ \E n \in DOMAIN fetches, envDB \in BOOLEAN : FetchServe(n, envDB)
  \/ \E n \in DOMAIN fetches : FetchApply(n)
  \/ /\ POST(DashData(nextId), TRUE, FALSE, MaxIngest)
     /\ UNCHANGED dashVars

SpecDash == Init /\ [][NextDash]_vars

\* ------------------------------------------------------------------ claims
SortedDesc(s) ==
  \A i, j \in DOMAIN s : i < j => Twice(s[i].timestamp) >= Twice(s[j].timestamp)
SortedAsc(s) ==
  \A i, j \in DOMAIN s : i < j => Twice(s[i].timestamp) <= Twice(s[j].timestamp)
NoRepeat(s) == \A i, j \in DOMAIN s : i # j => s[i] # s[j]

\* The last call was a GET that ran the Store query q
Answered(q) == resp.op = "GET" /\ resp.status = 200 /\ resp.query = q

\* A sample the specification calls invalid: deviceId empty or absent,
\* timestamp absent or not an integer
InvalidSample(data) ==
  \/ ~(data.deviceId.k = "string" /\ data.deviceId.s # "")
  \/ ~(data.timestamp.k = "number" /\ ~data.timestamp.half)

\* At most limit rows; no count is negative, so below 0 this is no rows
AtMost(count, limit) == count <= (IF limit < 0 THEN 0 ELSE limit)

\* A table holds every row of each db.batch call it holds a row of
AllOrNothing(st) ==
  \A r \in Range(st) :
    r.bsize > 0 => Cardinality({q \in Range(st) : q.batch = r.batch}) = r.bsize

\* C1: a batch insert is all-or-nothing under any interleaving: the table
\* holds all rows of a writeBatchData call or none, every query reads a
\* table that holds all or none, a call that failed (also after some of its
\* statements ran) leaves the table as it found it, and a call that returned
\* has added every row.
C1_BatchAllOrNothing ==
  /\ AllOrNothing(store)
  /\ resp.op = "GET" => AllOrNothing(resp.snap)
  /\ (resp.op = "writeBatchData" /\ resp.threw) => store = resp.snap
  /\ (resp.op = "writeBatchData" /\ ~resp.threw) =>
       /\ Len(store) = Len(resp.snap) + Len(resp.array)
       /\ SubSeq(store, 1, Len(resp.snap)) = resp.snap
       /\ \A i \in DOMAIN resp.array :
            SameFields(store[Len(resp.snap) + i], resp.array[i])

\* A query ran while a batch of two had run one statement, and read none of it
C1_Witness ==
  /\ txn.active /\ txn.done >= 1 /\ txn.rest # <<>>
  /\ resp.op = "GET" /\ resp.status = 200 /\ resp.during >= 1
  /\ resp.snap = store /\ store # <<>>

\* C2: a batch with an invalid element is rejected as a whole before any
\* write: the call fails and the table is as before.
C2_InvalidBatchRejected ==
  (resp.op = "writeBatchData" /\ \E i \in DOMAIN resp.array : InvalidSample(resp.array[i]))
    => (resp.threw /\ store = resp.snap)

\* The step is a successful POST of a sample followed at once by
\* latestForDevice(sample.deviceId, 1)
ReadBackStep ==
  /\ resp.op = "POST" /\ resp.status = 200
  /\ resp'.op = "GET" /\ resp'.status = 200 /\ resp'.query = "getLatestData"
  /\ resp'.params.deviceId = resp.sample.deviceId
  /\ LimitOf(resp'.params) = 1

ReadBackIsSample ==
  /\ Len(resp'.data) = 1
  /\ SameFields(resp'.data[1], resp.sample)

\* Every row the device had before the POST is older than the sample
PriorRowsOlder ==
  \A r \in Range(resp.snap) :
    r.device_id = resp.sample.deviceId.s =>
      Twice(r.timestamp) < Twice(resp.sample.timestamp)

\* C3 as stated: whatever the table held, a successful POST of s followed at
\* once by latestForDevice(s.deviceId, 1) returns exactly the record of s.
C3_RoundTrip == [][ReadBackStep => ReadBackIsSample]_vars

\* C3 amended: the round trip holds when every row the device already had
\* has a timestamp strictly less than the sample's.
C3_RoundTripWhenNewest == [][(ReadBackStep /\ PriorRowsOlder) => ReadBackIsSample]_vars

\* The device had an older row, and the read-back returned the row just inserted
C3_Witness ==
  /\ Answered("getLatestData") /\ LimitOf(resp.params) = 1
  /\ resp.snap = store /\ Len(store) >= 2
  /\ resp.data = <<store[Len(store)]>>
  /\ \E i \in 1..(Len(store) - 1) :
       /\ store[i].device_id = resp.params.deviceId.s
       /\ Twice(store[i].timestamp) < Twice(resp.data[1].timestamp)

\* C4: POST's validation rejects a sample exactly when its deviceId is empty
\* or absent or its timestamp is absent or not an integer.
C4_ValidationIff ==
  (resp.op = "POST" /\ (resp.wrote \/ resp.status = 400))
    => (resp.status = 400 <=> InvalidSample(resp.sample))

\* C5: range returns exactly the rows of the device with t0 <= timestamp <= t1,
\* all of them, ascending by timestamp, and none when t0 > t1.
C5_RangeExact ==
  Answered("getDataByTimeRange") =>
    LET t0 == ParseInt(resp.params.startTime.s)
        t1 == ParseInt(resp.params.endTime.s)
        want == {r \in Range(resp.snap) :
                   /\ r.device_id = resp.params.deviceId.s
                   /\ 2 * t0 <= Twice(r.timestamp)
                   /\ Twice(r.timestamp) <= 2 * t1}
    IN /\ Range(resp.data) = want
       /\ Len(resp.data) = Cardinality(want)
       /\ SortedAsc(resp.data)
       /\ t0 > t1 => resp.data = <<>>
       /\ resp.count = Len(resp.data)

\* A range query returned more rows than the request's limit, both bounds
\* attained, and left out a row of another device
C5_Witness ==
  /\ Answered("getDataByTimeRange")
  /\ LimitOf(resp.params) = 1 /\ Len(resp.data) >= 2
  /\ resp.data[1].timestamp = Num(ParseInt(resp.params.startTime.s), FALSE)
  /\ resp.data[Len(resp.data)].timestamp = Num(ParseInt(resp.params.endTime.s), FALSE)
  /\ \E r \in Range(resp.snap) : r.device_id # resp.params.deviceId.s

\* C6: latest(limit) returns at most limit rows, across all devices,
\* descending by timestamp, the rows with the greatest timestamps, for every
\* integer limit the endpoint passes.
C6_LatestTopLimit ==
  Answered("getAllLatestData") =>
    /\ AtMost(Len(resp.data), LimitOf(resp.params))
    /\ resp.params.limit = JNull => LimitOf(resp.params) = DefaultLimit
    /\ SortedDesc(resp.data) /\ NoRepeat(resp.data)
    /\ Range(resp.data) \subseteq Range(resp.snap)
    /\ \A r \in Range(resp.snap) \ Range(resp.data) :
         \A q \in Range(resp.data) : Twice(r.timestamp) <= Twice(q.timestamp)

\* C7: latestForDevice returns only rows of the device, at most limit of
\* them, descending by timestamp, and for a device with no rows the empty
\* sequence with count 0 in a success response.
C7_LatestForDevice ==
  Answered("getLatestData") =>
    /\ \A r \in Range(resp.data) : r.device_id = resp.params.deviceId.s
    /\ AtMost(Len(resp.data), LimitOf(resp.params))
    /\ SortedDesc(resp.data) /\ NoRepeat(resp.data)
    /\ Range(resp.data) \subseteq Range(resp.snap)
    /\ (\A r \in Range(resp.snap) : r.device_id # resp.params.deviceId.s)
         => (resp.data = <<>> /\ resp.count = 0)

\* C8: a POST answered 400 issued no Store write and left the table as it was.
C8_RejectedLeavesStore ==
  [][(resp'.op = "POST" /\ resp'.status = 400)
       => (~resp'.wrote /\ store' = store /\ nextId' = nextId)]_vars

\* A POST with an empty deviceId was answered 400 over a table that holds rows
C8_Witness ==
  /\ resp.op = "POST" /\ resp.status = 400
  /\ resp.sample.deviceId = Str("") /\ Truthy(resp.sample.timestamp)
  /\ store # <<>> /\ store = resp.snap

\* C9: a POST answers success only when exactly one row, the sample's, was
\* added by one write; a write that failed is answered 500; and nothing is
\* added unless success is answered.
C9_FaithfulOutcome ==
  [][resp'.op = "POST" =>
       /\ resp'.status \in {200, 400, 500}
       /\ resp'.status = 200 =>
            /\ resp'.wrote
            /\ Len(store') = Len(store) + 1
            /\ SubSeq(store', 1, Len(store)) = store
            /\ SameFields(store'[Len(store')], resp'.sample)
            /\ \A i \in DOMAIN store : store[i].id < store'[Len(store')].id
       /\ resp'.status # 200 => store' = store
       /\ (resp'.wrote /\ store' = store) => resp'.status = 500]_vars

\* A POST of a sample that passed validation was answered 500 because the
\* write failed, over a table that holds rows
C9_Witness ==
  /\ resp.op = "POST" /\ resp.status = 500 /\ resp.wrote
  /\ ~InvalidSample(resp.sample)
  /\ store # <<>> /\ store = resp.snap

\* The parameter is in the request (searchParams.get is not null)
Present(v) == v.k # "null"
\* The parameter is in the request with a value that is not empty
Given(v) == v.k = "string" /\ v.s # ""

\* The read endpoint's dispatch, with Has deciding what counts as present
Dispatch(Has(_)) ==
  (resp.op = "GET" /\ resp.status = 200) =>
    LET d == Has(resp.params.deviceId)
        s == Has(resp.params.startTime)
        e == Has(resp.params.endTime)
    IN /\ resp.query \in {"getDataByTimeRange", "getLatestData", "getAllLatestData"}
       /\ (d /\ s /\ e) => resp.query = "getDataByTimeRange"
       /\ (d /\ ~(s /\ e)) => resp.query = "getLatestData"
       /\ (~d /\ ~s /\ ~e) => resp.query = "getAllLatestData"
       /\ resp.data \in QueryResults(resp.params, resp.snap)
       /\ resp.count = Len(resp.data)

\* C10 as stated: GET resolves the parameters by their presence.
C10_DispatchByPresence == Dispatch(Present)

\* C10 amended: GET resolves the parameters by their being present with a
\* value that is not empty; count is the length of data.
C10_DispatchByValue == Dispatch(Given)

\* deviceId and endTime given, startTime there with no value: latest for device
C10_Witness ==
  /\ Answered("getLatestData")
  /\ Given(resp.params.deviceId) /\ Given(resp.params.endTime)
  /\ resp.params.startTime = Str("")
  /\ resp.count >= 1

\* The ids of a table rise strictly along the order of insertion
IdsRise(st) == \A i, j \in DOMAIN st : i < j => st[i].id < st[j].id

\* C11: the Store is append-only with insertion-ordered ids: every step
\* leaves each row where and as it was and adds rows only at the end, and
\* along the order of insertion the ids rise strictly (so they are unique),
\* whatever the timestamps.
C11_AppendOnly ==
  [][/\ Len(store') >= Len(store)
     /\ SubSeq(store', 1, Len(store)) = store
     /\ IdsRise(store')
     /\ \A i \in DOMAIN store' : store'[i].id < nextId']_vars

\* Single writes and a batch of two filled the table and a query then read
\* it: the ids rise along the order of insertion while a timestamp falls
C11_Witness ==
  /\ Len(store) = MaxStore /\ IdsRise(store)
  /\ \E i \in DOMAIN store : store[i].bsize = 0
  /\ \E i \in DOMAIN store : store[i].bsize >= 2
  /\ \E i, j \in DOMAIN store :
       i < j /\ Twice(store[i].timestamp) > Twice(store[j].timestamp)
  /\ resp.op = "GET" /\ resp.snap = store /\ resp.count = Len(store)

\* Rows with equal timestamps stand in the order of their ids, rising
\* throughout or falling throughout
TiesById(s) ==
  \/ \A i, j \in DOMAIN s : (i < j /\ s[i].timestamp = s[j].timestamp) => s[i].id < s[j].id
  \/ \A i, j \in DOMAIN s : (i < j /\ s[i].timestamp = s[j].timestamp) => s[i].id > s[j].id

\* The step runs again the query that was just answered, on the same table
SameQueryAgain ==
  /\ resp.op = "GET" /\ resp.status = 200
  /\ resp'.op = "GET" /\ resp'.status = 200
  /\ resp'.params = resp.params
  /\ resp'.snap = resp.snap

\* C12: query results are deterministic under timestamp ties: rows with
\* equal timestamps are ordered by id, so the same query run twice on the
\* same table returns the same sequence (and under a limit the same rows).
C12_DeterministicUnderTies ==
  [][SameQueryAgain => (resp'.data = resp.data /\ TiesById(resp'.data))]_vars

\* The greatest timestamp (doubled) among the rows of a device in a set of rows
MaxOfDevice(rows, dev) ==
  CHOOSE t \in {Twice(r.timestamp) : r \in {q \in rows : q.device_id = dev}} :
    \A r \in rows : r.device_id = dev => Twice(r.timestamp) <= t

\* C13: the dashboard's reduction maps a latest response to exactly one
\* record for each device_id in the response, the record being one of the
\* response's and having the greatest timestamp among the response's records
\* of the device, the list sorted descending by timestamp; and that
\* timestamp is the device's greatest in the whole table the query read.
C13_LatestPerDevice ==
  Answered("getAllLatestData") =>
    LET out == latestData(resp.data)
        devs == {r.device_id : r \in Range(resp.data)}
    IN /\ {r.device_id : r \in Range(out)} = devs
       /\ Len(out) = Cardinality(devs)
       /\ Range(out) \subseteq Range(resp.data)
       /\ SortedDesc(out)
       /\ \A i \in DOMAIN out :
            /\ Twice(out[i].timestamp) = MaxOfDevice(Range(resp.data), out[i].device_id)
            /\ Twice(out[i].timestamp) = MaxOfDevice(Range(resp.snap), out[i].device_id)

\* The response held three rows of two devices, the older row of a device
\* among them, and the reduction kept two
C13_Witness ==
  /\ Answered("getAllLatestData")
  /\ Len(resp.data) = MaxStore
  /\ Len(latestData(resp.data)) = 2
  /\ \E i, j \in DOMAIN resp.data :
       /\ resp.data[i].device_id = resp.data[j].device_id
       /\ resp.data[i].timestamp # resp.data[j].timestamp

\* The calls whose response has been applied to the list
Applied == {n \in DOMAIN fetches : fetches[n].phase = "done" /\ fetches[n].ok}

\* C14: with several fetchLatestData calls in flight, the list never goes
\* back in time: once responses have been applied, the list is the result
\* of the latest-issued call among them, no earlier-issued call's response
\* standing over it; so after all calls complete the list is the result of
\* the most recently issued call that was applied.
C14_NeverGoesBack ==
  Applied # {} =>
    LET last == CHOOSE n \in Applied : \A m \in Applied : m <= n
    IN latestDeviceData = latestData(fetches[last].data)

====
